---- MODULE Spec2Model ----
(***************************************************************************)
(* The graph engine of text-game (src/src/graph.rs): Node, Graph, and the  *)
(* serde codec of Graph.  A Graph is a root id, a current id and a         *)
(* LinkedHashMap from id to node; a Node is an id, an element and a        *)
(* HashMap from edge element to destination id.                            *)
(***************************************************************************)
EXTENDS Integers, Sequences, FiniteSets, TLC

\* ---------------------------------------------------------------- bounds
\* The number of nodes a graph may hold (Uuid::new_v4 is drawn from 1..MaxNodes).
MaxNodes == 3
\* The number of operations carried out on one graph.
MaxOps == 4
\* The longest record sequence handed to deserialize.
MaxRecords == 2
\* The number of menu choices carried out in one run of the editor (main.rs).
MaxEditorOps == 4

\* Ids that Uuid::new_v4 may return.
UUIDs == 1..MaxNodes
\* A String that is the id of no node (never returned by Uuid::new_v4).
BogusIds == {0}
\* Edge elements (directions) and node elements (descriptions) callers supply.
EdgeElements == {"north", "south"}
NodeElements == {"Room A", "Room B"}

VARIABLES
    root_node_id,     \* Graph.root_node_id
    current_node_id,  \* Graph.current_node_id
    nodes,            \* Graph.nodes: the LinkedHashMap, as the sequence of its
                      \* nodes in iteration order (the key of a node is its id)
    panicked,         \* TRUE once a call has panicked (the thread unwinds)
    created,          \* ids in the order Node::new produced them
    op,               \* the last call: its name, arguments and result
    prev,             \* the call before the last one
    input,            \* the record sequence last given to deserialize
    ops,              \* number of calls made so far
    heap,             \* main.rs: the Rc<RefCell<Node>> allocations; a pointer is
                      \* an index into this sequence
    main_root_node,   \* main.rs: Graph.root_node
    main_current_node,\* main.rs: Graph.current_node
    main_op,          \* main.rs: the last menu choice carried out
    main_ops          \* main.rs: number of menu choices carried out

graph_vars ==
    <<root_node_id, current_node_id, nodes, panicked, created, op, prev, input, ops>>
main_vars == <<heap, main_root_node, main_current_node, main_op, main_ops>>
vars == <<graph_vars, main_vars>>

\* ------------------------------------------------------------- Option<T>
None == << >>
Some(x) == <<x>>
unwrap(o) == o[1]

\* ------------------------------------------------------------------ Node
NoEdges == [e \in {} |-> 0]

\* Node::new, with the id Uuid::new_v4 returned.
Node_new(id, element) == [id |-> id, element |-> element, edges |-> NoEdges]

\* Node::edge_elements
edge_elements(node) == DOMAIN node.edges

\* HashMap::insert keeping the first value of a key (the behaviour of a
\* Vec of edges searched front to back, as in main.rs).
insert_edge_keep_first(node, element, node_id) ==
    IF element \in DOMAIN node.edges
    THEN node
    ELSE [node EXCEPT !.edges =
            [e \in DOMAIN node.edges \cup {element} |->
                IF e = element THEN node_id ELSE node.edges[e]]]

\* insert_edge that replaces the whole map by the one new edge.
insert_edge_clearing(node, element, node_id) ==
    [node EXCEPT !.edges = [e \in {element} |-> node_id]]

\* Node::insert_edge: HashMap::insert replaces the value of an existing key.
insert_edge(node, element, node_id) ==
    [node EXCEPT !.edges =
        [e \in DOMAIN node.edges \cup {element} |->
            IF e = element THEN node_id ELSE node.edges[e]]]

\* node_for_edge_element that does not compare the element: any edge matches.
node_for_edge_element_any(node, element) ==
    IF DOMAIN node.edges # {}
    THEN Some(node.edges[CHOOSE e \in DOMAIN node.edges : TRUE])
    ELSE None

\* Node::node_for_edge_element
node_for_edge_element(node, element) ==
    IF element \in DOMAIN node.edges THEN Some(node.edges[element]) ELSE None

\* --------------------------------------------------------- LinkedHashMap
keys(map) == {map[i].id : i \in DOMAIN map}
key_seq(map) == [i \in DOMAIN map |-> map[i].id]
contains_key(map, id) == id \in keys(map)
index_of(map, id) == CHOOSE i \in DOMAIN map : map[i].id = id
get(map, id) == map[index_of(map, id)]
remove(map, id) == SelectSeq(map, LAMBDA n : n.id # id)

\* LinkedHashMap::insert that puts a new entry first.
map_insert_front(map, node) == <<node>> \o remove(map, node.id)

\* LinkedHashMap::insert: a new key is appended; an existing key takes the
\* new value and moves to the back.
map_insert(map, node) == Append(remove(map, node.id), node)

\* The node behind an Rc<RefCell<..>> changed in place: it keeps its position.
replace_node(map, node) ==
    [i \in DOMAIN map |-> IF map[i].id = node.id THEN node ELSE map[i]]


\* ----------------------------------------------------------------- calls
\* The record of one call: its name, the current id it was made at, its
\* arguments (edge "", element "" and node_id None when the call takes none),
\* how it ended ("returned", "Err" or "panicked") and the id it returned, if any.
Call(name, edge, element, node_id, outcome, ret) ==
    [name |-> name, at |-> current_node_id, edge |-> edge, element |-> element,
     node_id |-> node_id, outcome |-> outcome, ret |-> ret]

NoCall == Call("none", "", "", None, "returned", None)

\* The record of one menu choice of main.rs: the node it was made at, the node
\* it created (0 when none), the direction and return direction entered.
MainCall(name, at, new, direction, return_direction) ==
    [name |-> name, at |-> at, new |-> new, direction |-> direction,
     return_direction |-> return_direction]

\* The editor of main.rs is not running.
no_editor ==
    /\ heap = << >> /\ main_root_node = 0 /\ main_current_node = 0
    /\ main_op = MainCall("none", 0, 0, "", None) /\ main_ops = 0

\* What every call does to the bookkeeping variables.
Record(call) ==
    /\ op' = call
    /\ prev' = op
    /\ ops' = ops + 1
    /\ panicked' = (call.outcome = "panicked")
    /\ UNCHANGED main_vars

\* ----------------------------------------------------------------- Graph
\* Graph::new
Graph_new(id, root_node_element) ==
    /\ root_node_id = id
    /\ current_node_id = id
    /\ nodes = map_insert(<< >>, Node_new(id, root_node_element))
    /\ created = <<id>>
    /\ panicked = FALSE
    /\ op = Call("new", "", root_node_element, None, "returned", None)
    /\ prev = NoCall
    /\ input = [wellformed |-> TRUE, records |-> << >>]
    /\ ops = 0
    /\ no_editor

\* Graph::current_node indexes the map: it panics when the key is absent.
has_current_node == contains_key(nodes, current_node_id)
current_node == get(nodes, current_node_id)

\* Uuid::new_v4 returns an id no node has been given before.
fresh(uuid) == uuid \in UUIDs /\ \A i \in DOMAIN created : created[i] # uuid

\* insert_edge_to_new_node that also moves to the new node.
insert_edge_to_new_node_moving(edge, node, uuid) ==
    /\ ~panicked /\ ops < MaxOps /\ fresh(uuid) /\ has_current_node
    /\ created' = Append(created, uuid)
    /\ nodes' = map_insert(replace_node(nodes, insert_edge(current_node, edge, uuid)),
                           Node_new(uuid, node))
    /\ current_node_id' = uuid
    /\ Record(Call("insert_edge_to_new_node", edge, node, None, "returned", Some(uuid)))
    /\ UNCHANGED <<root_node_id, input>>

\* Graph::insert_edge_to_new_node
insert_edge_to_new_node(edge, node, uuid) ==
    /\ ~panicked /\ ops < MaxOps /\ fresh(uuid)
    /\ created' = Append(created, uuid)
    /\ IF has_current_node
       THEN /\ nodes' = map_insert(
                    replace_node(nodes, insert_edge(current_node, edge, uuid)),
                    Node_new(uuid, node))
            /\ Record(Call("insert_edge_to_new_node", edge, node, None,
                           "returned", Some(uuid)))
       ELSE /\ nodes' = nodes
            /\ Record(Call("insert_edge_to_new_node", edge, node, None,
                           "panicked", None))
    /\ UNCHANGED <<root_node_id, current_node_id, input>>

\* insert_edge_to_existing_node that inserts at the root node, not the current one.
insert_edge_to_existing_node_at_root(edge, node_id) ==
    /\ ~panicked /\ ops < MaxOps /\ contains_key(nodes, root_node_id)
    /\ nodes' = replace_node(nodes, insert_edge(get(nodes, root_node_id), edge, node_id))
    /\ Record(Call("insert_edge_to_existing_node", edge, "", Some(node_id),
                   "returned", None))
    /\ UNCHANGED <<root_node_id, current_node_id, created, input>>

\* Graph::insert_edge_to_existing_node: node_id is not looked up.
insert_edge_to_existing_node(edge, node_id) ==
    /\ ~panicked /\ ops < MaxOps
    /\ IF has_current_node
       THEN /\ nodes' = replace_node(nodes, insert_edge(current_node, edge, node_id))
            /\ Record(Call("insert_edge_to_existing_node", edge, "", Some(node_id),
                           "returned", None))
       ELSE /\ nodes' = nodes
            /\ Record(Call("insert_edge_to_existing_node", edge, "", Some(node_id),
                           "panicked", None))
    /\ UNCHANGED <<root_node_id, current_node_id, created, input>>

\* Graph::nodes: the nodes in the map's iteration order.
graph_nodes == nodes

\* Graph::traverse: the id is assigned before current_node() looks it up.
traverse(edge_element) ==
    /\ ~panicked /\ ops < MaxOps
    /\ IF ~has_current_node
       THEN /\ current_node_id' = current_node_id
            /\ Record(Call("traverse", edge_element, "", None, "panicked", None))
       ELSE LET matched_node == node_for_edge_element(current_node, edge_element) IN
            IF matched_node = None
            THEN /\ current_node_id' = current_node_id
                 /\ Record(Call("traverse", edge_element, "", None, "returned", None))
            ELSE /\ current_node_id' = unwrap(matched_node)
                 /\ IF contains_key(nodes, unwrap(matched_node))
                    THEN Record(Call("traverse", edge_element, "", None, "returned",
                                     matched_node))
                    ELSE Record(Call("traverse", edge_element, "", None, "panicked",
                                     None))
    /\ UNCHANGED <<root_node_id, nodes, created, input>>

\* reset that leaves the position where it is.
reset_stay ==
    /\ ~panicked /\ ops < MaxOps
    /\ Record(Call("reset", "", "", None, "returned", None))
    /\ UNCHANGED <<root_node_id, current_node_id, nodes, created, input>>

\* Graph::reset
reset ==
    /\ ~panicked /\ ops < MaxOps
    /\ current_node_id' = root_node_id
    /\ Record(Call("reset", "", "", None, "returned", None))
    /\ UNCHANGED <<root_node_id, nodes, created, input>>

\* A caller writing the pub field element through current_node().borrow_mut().
update_element(element) ==
    /\ ~panicked /\ ops < MaxOps
    /\ IF has_current_node
       THEN /\ nodes' = replace_node(nodes, [current_node EXCEPT !.element = element])
            /\ Record(Call("update_element", "", element, None, "returned", None))
       ELSE /\ nodes' = nodes
            /\ Record(Call("update_element", "", element, None, "panicked", None))
    /\ UNCHANGED <<root_node_id, current_node_id, created, input>>

\* ----------------------------------------------------------------- codec
\* impl Serialize for Graph: one element per node, in the map's iteration
\* order, each the derived serialization of Node (id, element, edges).  The
\* root id and the current id are not written.
serialize(map) ==
    [i \in DOMAIN map |->
        [id |-> map[i].id, element |-> map[i].element, edges |-> map[i].edges]]

\* GraphVisitor::visit_seq: the elements pushed onto a Vec in the order read.
RECURSIVE visit_seq(_)
visit_seq(seq) ==
    IF seq = << >> THEN << >>
    ELSE <<[id |-> Head(seq).id, element |-> Head(seq).element,
            edges |-> Head(seq).edges]>> \o visit_seq(Tail(seq))

\* The loop of deserialize: every node inserted into the map under its id.
RECURSIVE insert_all(_, _)
insert_all(nodes_map, node_vec) ==
    IF node_vec = << >> THEN nodes_map
    ELSE insert_all(map_insert(nodes_map, Head(node_vec)), Tail(node_vec))

\* deserialize taking the last element as the root.
deserialize_last_root(in) ==
    IF ~in.wellformed
    THEN [outcome |-> "Err", root_node_id |-> 0, current_node_id |-> 0, nodes |-> << >>]
    ELSE LET node_vec == visit_seq(in.records) IN
         IF node_vec = << >>
         THEN [outcome |-> "panicked", root_node_id |-> 0, current_node_id |-> 0,
               nodes |-> << >>]
         ELSE [outcome |-> "returned",
               root_node_id |-> node_vec[Len(node_vec)].id,
               current_node_id |-> node_vec[Len(node_vec)].id,
               nodes |-> insert_all(<< >>, node_vec)]

\* impl Deserialize for Graph: an error of the deserializer is passed on;
\* otherwise nodes[0] is the root, which panics on an empty Vec.
deserialize(in) ==
    IF ~in.wellformed
    THEN [outcome |-> "Err", root_node_id |-> 0, current_node_id |-> 0, nodes |-> << >>]
    ELSE LET node_vec == visit_seq(in.records) IN
         IF node_vec = << >>
         THEN [outcome |-> "panicked", root_node_id |-> 0, current_node_id |-> 0,
               nodes |-> << >>]
         ELSE [outcome |-> "returned",
               root_node_id |-> node_vec[1].id,
               current_node_id |-> node_vec[1].id,
               nodes |-> insert_all(<< >>, node_vec)]

\* The graph written out and read back in its place.
save_and_load ==
    /\ ~panicked /\ ops < MaxOps
    /\ input' = [wellformed |-> TRUE, records |-> serialize(nodes)]
    /\ LET g == deserialize(input') IN
       /\ Record(Call("deserialize", "", "", None, g.outcome, None))
       /\ IF g.outcome = "returned"
          THEN /\ root_node_id' = g.root_node_id
               /\ current_node_id' = g.current_node_id
               /\ nodes' = g.nodes
          ELSE UNCHANGED <<root_node_id, current_node_id, nodes>>
    /\ UNCHANGED created

\* ----------------------------------------------------- the graph's life
Init == \E id \in UUIDs, element \in NodeElements : Graph_new(id, element)

Next ==
    \/ \E edge \in EdgeElements, node \in NodeElements, uuid \in UUIDs :
          insert_edge_to_new_node(edge, node, uuid)
    \/ \E edge \in EdgeElements, node_id \in keys(nodes) \cup BogusIds :
          insert_edge_to_existing_node(edge, node_id)
    \/ \E edge_element \in EdgeElements : traverse(edge_element)
    \/ reset
    \/ \E element \in NodeElements : update_element(element)
    \/ save_and_load

Spec == Init /\ [][Next]_vars

\* ------------------------------------------------- deserialize, any input
\* The ids, edges and records a serialized sequence may hold.
RecordIds == 1..MaxRecords
RecordEdges ==
    {NoEdges} \cup {[e \in {"north"} |-> d] : d \in RecordIds \cup BogusIds}
Records == [id : RecordIds, element : NodeElements, edges : RecordEdges]
RECURSIVE RecordSeqs(_)
RecordSeqs(n) ==
    IF n = 0 THEN {<< >>}
    ELSE RecordSeqs(n - 1) \cup
         {Append(s, r) : s \in {t \in RecordSeqs(n - 1) : Len(t) = n - 1}, r \in Records}
Inputs ==
    {[wellformed |-> TRUE, records |-> s] : s \in RecordSeqs(MaxRecords)}
    \cup {[wellformed |-> FALSE, records |-> << >>]}

\* No graph yet: an input is about to be deserialized.
InitDecode ==
    /\ input \in Inputs
    /\ root_node_id = 0 /\ current_node_id = 0 /\ nodes = << >>
    /\ created = << >> /\ panicked = FALSE
    /\ op = NoCall /\ prev = NoCall /\ ops = 0
    /\ no_editor

\* Graph::deserialize called on the input.
load ==
    /\ op.name = "none"
    /\ LET g == deserialize(input) IN
       /\ Record(Call("deserialize", "", "", None, g.outcome, None))
       /\ root_node_id' = g.root_node_id
       /\ current_node_id' = g.current_node_id
       /\ nodes' = g.nodes
    /\ UNCHANGED <<created, input>>

NextDecode == load

SpecDecode == InitDecode /\ [][NextDecode]_vars

\* ------------------------------------------------- the editor of main.rs
\* main.rs has a Graph of its own: nodes are Rc<RefCell<Node>> that point at
\* each other, and a node's edges are a Vec of Edge in the order inserted.

\* The directions a user may enter; "X" leaves move_to_location.
Directions == EdgeElements

\* Node::new (main.rs)
main_Node_new(element) == [element |-> element, edges |-> << >>]

\* Edge::new (main.rs)
Edge_new(element, destination_node) ==
    [element |-> element, destination_node |-> destination_node]

\* Edge::matches
matches(edge, element) == edge.element = element

\* Node::insert_edge (main.rs): the edge is pushed onto the Vec.
main_insert_edge(node, edge, destination_node) ==
    [node EXCEPT !.edges = Append(node.edges, Edge_new(edge, destination_node))]

\* Node::node_for_edge_element (main.rs): Iterator::find returns the first
\* edge that matches.
main_node_for_edge_element(node, element) ==
    IF \E i \in DOMAIN node.edges : matches(node.edges[i], element)
    THEN LET first == CHOOSE i \in DOMAIN node.edges :
                         /\ matches(node.edges[i], element)
                         /\ \A j \in 1..(i - 1) : ~matches(node.edges[j], element)
         IN Some(node.edges[first].destination_node)
    ELSE None

\* Graph::traverse (main.rs), as the current node it leaves behind.
main_traverse(h, current, edge) ==
    LET matched_node == main_node_for_edge_element(h[current], edge) IN
    IF matched_node = None THEN current ELSE unwrap(matched_node)

\* main: StringGraph::new(StringNode::new(prompt(..)))
InitEditor ==
    /\ \E description \in NodeElements :
          heap = <<main_Node_new(description)>>
    /\ main_root_node = 1 /\ main_current_node = 1
    /\ main_op = MainCall("new", 1, 1, "", None) /\ main_ops = 0
    /\ root_node_id = 0 /\ current_node_id = 0 /\ nodes = << >>
    /\ created = << >> /\ panicked = FALSE
    /\ op = NoCall /\ prev = NoCall /\ ops = 0
    /\ input = [wellformed |-> TRUE, records |-> << >>]

\* Menu 1: update_location_description
update_location_description(description) ==
    /\ main_ops < MaxEditorOps
    /\ heap' = [heap EXCEPT ![main_current_node].element = description]
    /\ main_op' = MainCall("update_location_description", main_current_node, 0, "", None)
    /\ main_ops' = main_ops + 1
    /\ UNCHANGED <<main_root_node, main_current_node, graph_vars>>

\* Menu 2: connect_new_location.  The new node is allocated, Graph::insert_edge
\* pushes the edge at the current node, current_node is captured, the graph
\* traverses new_direction, and on "y" the return edge is inserted through
\* the captured current_node, leading to the captured current_node.
\* return_direction is None for the answer "n".
connect_new_location(description, new_direction, return_direction) ==
    /\ main_ops < MaxEditorOps
    /\ LET new_location == Len(heap) + 1
           allocated == Append(heap, main_Node_new(description))
           inserted == [allocated EXCEPT ![main_current_node] =
                           main_insert_edge(@, new_direction, new_location)]
           current_node_before == main_current_node
           after_traverse == main_traverse(inserted, main_current_node, new_direction)
       IN /\ heap' = IF return_direction = None THEN inserted
                     ELSE [inserted EXCEPT ![current_node_before] =
                              main_insert_edge(@, unwrap(return_direction),
                                               current_node_before)]
          /\ main_current_node' = after_traverse
          /\ main_op' = MainCall("connect_new_location", current_node_before,
                                 new_location, new_direction, return_direction)
    /\ main_ops' = main_ops + 1
    /\ UNCHANGED <<main_root_node, graph_vars>>

\* Menu 3 and 4: move_to_location, one direction entered ("X" returns at once;
\* a direction without an edge leaves the graph alone and prompts again).
move_to_location(desired_direction) ==
    /\ main_ops < MaxEditorOps
    /\ main_current_node' =
          IF desired_direction = "X" THEN main_current_node
          ELSE main_traverse(heap, main_current_node, desired_direction)
    /\ main_op' = MainCall("move_to_location", main_current_node, 0,
                           desired_direction, None)
    /\ main_ops' = main_ops + 1
    /\ UNCHANGED <<heap, main_root_node, graph_vars>>

\* Menu 5: Graph::reset (main.rs)
main_reset ==
    /\ main_ops < MaxEditorOps
    /\ main_current_node' = main_root_node
    /\ main_op' = MainCall("reset", main_current_node, 0, "", None)
    /\ main_ops' = main_ops + 1
    /\ UNCHANGED <<heap, main_root_node, graph_vars>>

NextEditor ==
    \/ \E description \in NodeElements : update_location_description(description)
    \/ \E description \in NodeElements, new_direction \in Directions,
          return_direction \in {None} \cup {Some(d) : d \in Directions} :
          connect_new_location(description, new_direction, return_direction)
    \/ \E desired_direction \in Directions \cup {"X"} :
          move_to_location(desired_direction)
    \/ main_reset

SpecEditor == InitEditor /\ [][NextEditor]_vars

\* ================================================================ claims
\* The calls that insert an edge at the current node.
InsertNames == {"insert_edge_to_new_node", "insert_edge_to_existing_node"}

\* C1: after every Graph operation, every destination id of every edge, the
\* root id and the current id name a node present in the store.
C1_IdsInStore ==
    /\ contains_key(nodes, root_node_id)
    /\ contains_key(nodes, current_node_id)
    /\ \A i \in DOMAIN nodes : \A e \in edge_elements(nodes[i]) :
          contains_key(nodes, nodes[i].edges[e])

\* C2: traverse(L) with L no key of the current node's edges returns None and
\* leaves the current id as it was.
C2_TraverseAbsentEdge ==
    [][(/\ op'.name = "traverse"
        /\ has_current_node
        /\ op'.edge \notin edge_elements(current_node))
       => (/\ op'.outcome = "returned"
           /\ op'.ret = None
           /\ current_node_id' = current_node_id)]_vars

\* C2 happens: a traverse of an absent edge returned None away from the root.
C2_Witness ==
    /\ op.name = "traverse" /\ op.outcome = "returned" /\ op.ret = None
    /\ op.at # root_node_id
    /\ current_node_id = op.at
    /\ edge_elements(current_node) # {}

\* C3: when insert_edge_to_new_node(L, P) returned n, a traverse(L) that
\* follows at once returns, moves the current id to n, and the current node's
\* element is P.
C3_InsertThenTraverse ==
    [][(/\ op.name = "insert_edge_to_new_node" /\ op.outcome = "returned"
        /\ op'.name = "traverse" /\ op'.edge = op.edge)
       => (/\ op'.outcome = "returned"
           /\ op'.ret = op.ret
           /\ current_node_id' = unwrap(op.ret)
           /\ contains_key(nodes', current_node_id')
           /\ get(nodes', current_node_id').element = op.element)]_vars

\* C3 happens: a third node was inserted away from the root and then moved to.
C3_Witness ==
    /\ prev.name = "insert_edge_to_new_node"
    /\ op.name = "traverse" /\ op.edge = prev.edge
    /\ op.at # root_node_id
    /\ current_node_id = unwrap(prev.ret)
    /\ Len(nodes) >= 3

\* C4: deserialize(serialize(g)) has the node ids of g, each with the element
\* and the edges it has in g, the root id of g, and its current id is that
\* root, wherever the current id of g is.
C4_RoundTrip ==
    LET g == deserialize([wellformed |-> TRUE, records |-> serialize(nodes)]) IN
    /\ g.outcome = "returned"
    /\ keys(g.nodes) = keys(nodes)
    /\ Len(g.nodes) = Len(nodes)
    /\ \A id \in keys(nodes) :
          /\ get(g.nodes, id).element = get(nodes, id).element
          /\ get(g.nodes, id).edges = get(nodes, id).edges
    /\ g.root_node_id = root_node_id
    /\ g.current_node_id = root_node_id

\* C4 happens: a graph saved and loaded while its current id was not its root.
C4_Witness ==
    /\ op.name = "deserialize" /\ op.outcome = "returned"
    /\ op.at # root_node_id
    /\ current_node_id = root_node_id
    /\ Len(nodes) >= 2
    /\ \E i \in DOMAIN nodes : edge_elements(nodes[i]) # {}

\* C5: reset returns with the current id at the root, and a reset after a
\* reset changes nothing.
C5_Reset ==
    [][(op'.name = "reset")
       => (/\ op'.outcome = "returned"
           /\ current_node_id' = root_node_id
           /\ <<root_node_id', nodes'>> = <<root_node_id, nodes>>
           /\ (op.name = "reset" =>
                 <<root_node_id', current_node_id', nodes'>> =
                 <<root_node_id, current_node_id, nodes>>))]_vars

\* C5 happens: a reset away from the root, followed by a second reset.
C5_Witness ==
    /\ prev.name = "reset" /\ prev.at # root_node_id
    /\ op.name = "reset" /\ op.at = root_node_id
    /\ current_node_id = root_node_id

\* The id an insertion made its edge lead to.
target_of(call) ==
    IF call.name = "insert_edge_to_new_node" THEN unwrap(call.ret)
    ELSE unwrap(call.node_id)

\* C6: an insertion of edge L at a node leaves that node with one edge for L,
\* leading to the id just inserted, also when L led elsewhere before; the
\* node has one edge per edge element and gains none but L.
C6_LastInsertWins ==
    [][(op'.name \in InsertNames /\ op'.outcome = "returned")
       => (/\ node_for_edge_element(get(nodes', op'.at), op'.edge)
                = Some(target_of(op'))
           /\ edge_elements(get(nodes', op'.at))
                = edge_elements(get(nodes, op'.at)) \cup {op'.edge}
           /\ Cardinality(edge_elements(get(nodes', op'.at)))
                = Cardinality(edge_elements(get(nodes, op'.at)))
                  + (IF op'.edge \in edge_elements(get(nodes, op'.at)) THEN 0 ELSE 1))]_vars

\* C6 happens: the same edge inserted twice at one node, to A and then to B.
C6_Witness ==
    /\ prev.name \in InsertNames /\ op.name \in InsertNames
    /\ prev.outcome = "returned" /\ op.outcome = "returned"
    /\ prev.at = op.at /\ prev.edge = op.edge
    /\ target_of(prev) # target_of(op)
    /\ get(nodes, op.at).edges[op.edge] = target_of(op)

\* C7: insert_edge_to_existing_node with an id that names no node signals
\* NodeNotFound and leaves the graph as it was.
C7_UnknownTargetRefused ==
    [][(/\ op'.name = "insert_edge_to_existing_node"
        /\ ~contains_key(nodes, unwrap(op'.node_id)))
       => (/\ op'.outcome = "NodeNotFound"
           /\ nodes' = nodes)]_vars

\* C8: deserialize of an empty sequence ends with an error value: it neither
\* panics nor returns a graph.
C8_EmptyIsError ==
    (op.name = "deserialize" /\ input.wellformed /\ input.records = << >>)
    => (op.outcome = "Err" /\ ~panicked)

\* C9: nodes() and serialize enumerate the ids in the order the nodes were
\* created, the root first, whatever calls were made; so does the graph read
\* back from its serialization.
C9_CreationOrder ==
    LET records == serialize(graph_nodes)
        g == deserialize([wellformed |-> TRUE, records |-> records]) IN
    /\ key_seq(graph_nodes) = created
    /\ [i \in DOMAIN records |-> records[i].id] = created
    /\ key_seq(g.nodes) = created
    /\ created[1] = root_node_id

\* C9 happens: three nodes whose ids were not issued in ascending order, an
\* edge overwritten, and the graph read back.
C9_Witness ==
    /\ Len(created) >= 3 /\ created[1] > created[2]
    /\ \E i \in DOMAIN nodes : edge_elements(nodes[i]) # {}
    /\ op.name = "deserialize" /\ op.outcome = "returned"
    /\ prev.name = "insert_edge_to_existing_node"

\* C10: insert_edge_to_new_node leaves the current id and the root id alone,
\* adds one node, with an id no node had, the element given and no edges, and
\* changes nothing else but the destination of the given edge at the current node.
C10_InsertNewFrame ==
    [][(op'.name = "insert_edge_to_new_node" /\ op'.outcome = "returned")
       => LET n == unwrap(op'.ret)
              old == get(nodes, current_node_id)
              new == get(nodes', current_node_id) IN
          /\ current_node_id' = current_node_id
          /\ root_node_id' = root_node_id
          /\ ~contains_key(nodes, n)
          /\ keys(nodes') = keys(nodes) \cup {n}
          /\ Len(nodes') = Len(nodes) + 1
          /\ get(nodes', n).element = op'.element
          /\ edge_elements(get(nodes', n)) = {}
          /\ \A id \in keys(nodes) \ {current_node_id} :
                get(nodes', id) = get(nodes, id)
          /\ new.id = old.id /\ new.element = old.element
          /\ edge_elements(new) = edge_elements(old) \cup {op'.edge}
          /\ new.edges[op'.edge] = n
          /\ \A e \in edge_elements(old) \ {op'.edge} : new.edges[e] = old.edges[e]]_vars

\* C10 happens: a node inserted from a node that is not the root, over an
\* edge that already led somewhere.
C10_Witness ==
    /\ op.name = "insert_edge_to_new_node" /\ op.outcome = "returned"
    /\ op.at # root_node_id
    /\ current_node_id = op.at
    /\ prev.name = "insert_edge_to_existing_node" /\ prev.edge = op.edge
    /\ prev.at = op.at

\* C11: the store only grows and ids are stable: on every step each node keeps
\* its id and its place in the store, no two nodes share an id, and the root
\* id stays what it was.
C11_AppendOnly ==
    [][/\ root_node_id' = root_node_id
       /\ \A i \in DOMAIN nodes :
             i \in DOMAIN nodes' /\ nodes'[i].id = nodes[i].id
       /\ Cardinality(keys(nodes')) = Len(nodes')]_vars

\* C11 happens: a store grown to three nodes and then read back.
C11_Witness ==
    /\ Len(nodes) >= 3
    /\ op.name = "deserialize" /\ op.outcome = "returned"
    /\ prev.name = "insert_edge_to_new_node"

\* C13: traverse always returns: with an edge for the label the current id
\* becomes that edge's destination and the node there is returned, without
\* one None is returned; the current id always names a node afterwards.
C13_TraverseTotal ==
    [][(op'.name = "traverse" /\ has_current_node)
       => (/\ op'.outcome = "returned"
           /\ contains_key(nodes', current_node_id')
           /\ IF op'.edge \in edge_elements(current_node)
              THEN /\ current_node_id' = current_node.edges[op'.edge]
                   /\ op'.ret = Some(current_node_id')
              ELSE /\ current_node_id' = current_node_id
                   /\ op'.ret = None)]_vars

\* C14: traverse and reset leave the store and the root id as they were;
\* insert_edge_to_existing_node leaves the current id, the root id, the node
\* ids and their order, every element and every edge but the current node's
\* edge for the given label.
C14_Frames ==
    [][/\ (op'.name \in {"traverse", "reset"})
          => (nodes' = nodes /\ root_node_id' = root_node_id)
       /\ (op'.name = "insert_edge_to_existing_node" /\ op'.outcome = "returned")
          => LET old == get(nodes, current_node_id)
                 new == get(nodes', current_node_id) IN
             /\ current_node_id' = current_node_id
             /\ root_node_id' = root_node_id
             /\ key_seq(nodes') = key_seq(nodes)
             /\ \A id \in keys(nodes) \ {current_node_id} :
                   get(nodes', id) = get(nodes, id)
             /\ new.element = old.element
             /\ edge_elements(new) \subseteq edge_elements(old) \cup {op'.edge}
             /\ \A e \in edge_elements(old) \ {op'.edge} :
                   e \in edge_elements(new) /\ new.edges[e] = old.edges[e]]_vars

\* C14 happens: an edge back to the root inserted at a node that is not the
\* root and has another edge as well.
C14_Witness ==
    /\ op.name = "insert_edge_to_existing_node" /\ op.outcome = "returned"
    /\ op.at # root_node_id
    /\ target_of(op) = root_node_id
    /\ Cardinality(edge_elements(get(nodes, op.at))) = 2

\* The ids reached from the ids in S by following edges of nodes in the store.
RECURSIVE Reach(_)
Reach(S) ==
    LET T == S \cup UNION {{nodes[i].edges[e] : e \in edge_elements(nodes[i])} :
                             i \in {j \in DOMAIN nodes : nodes[j].id \in S}}
    IN IF T = S THEN S ELSE Reach(T)

\* C17: while the graph lives, the current id names a node that is reached
\* from the root node by following edges.
C17_CursorReachable ==
    ~panicked => (has_current_node /\ current_node_id \in Reach({root_node_id}))

\* C17 happens: away from the root, an edge to a node of the store was
\* overwritten by another one.
C17_Witness ==
    /\ ~panicked
    /\ prev.name \in InsertNames /\ op.name \in InsertNames
    /\ prev.at = op.at /\ op.at # root_node_id /\ prev.edge = op.edge
    /\ target_of(prev) # target_of(op)
    /\ contains_key(nodes, target_of(prev)) /\ contains_key(nodes, target_of(op))
    /\ current_node_id = op.at

\* The ids of the records of a serialized sequence, in its order.
record_ids(records) == [i \in DOMAIN records |-> records[i].id]

\* C12: deserialize of a sequence in which an edge leads to an id that no
\* record has ends with an error value, not with a graph.
C12_DanglingEdgeRefused ==
    (/\ op.name = "deserialize" /\ input.wellformed
     /\ \E i \in DOMAIN input.records : \E e \in DOMAIN input.records[i].edges :
           \A j \in DOMAIN input.records :
              input.records[j].id # input.records[i].edges[e])
    => op.outcome = "Err"

\* C18: deserialize of a non-empty sequence returns a graph with one node per
\* record, in the order of the records, whose root id and current id are the
\* first record's id; when two records share an id it ends with an error value.
C18_DecodeKeepsInput ==
    (op.name = "deserialize" /\ input.wellformed /\ input.records # << >>)
    => IF \A i, j \in DOMAIN input.records :
             input.records[i].id = input.records[j].id => i = j
       THEN /\ op.outcome = "returned"
            /\ Len(graph_nodes) = Len(input.records)
            /\ key_seq(graph_nodes) = record_ids(input.records)
            /\ root_node_id = input.records[1].id
            /\ current_node_id = input.records[1].id
       ELSE op.outcome = "Err"

\* C15: in connect_new_location, when a return direction R is accepted after
\* the new location N was connected from the location O, traversing R at N
\* leads to O.
C15_ReturnEdge ==
    (main_op.name = "connect_new_location" /\ main_op.return_direction # None)
    => main_node_for_edge_element(heap[main_op.new], unwrap(main_op.return_direction))
         = Some(main_op.at)

\* C16: in the editor's graph an inserted edge replaces the destination its
\* label had: connect_new_location ends with the current node being the new
\* location, and its direction leads from the old location to the new one.
C16_ConnectEndsOnNew ==
    (main_op.name = "connect_new_location")
    => /\ main_current_node = main_op.new
       /\ main_node_for_edge_element(heap[main_op.at], main_op.direction)
            = Some(main_op.new)

====
